---- MODULE Spec2Model ----
(***************************************************************************)
(* A model of the Kafka wire-protocol Decoder (src/protocol/decoder.js):   *)
(* a byte buffer, a read cursor (offset) and the read operations that      *)
(* move the cursor.  Node's Buffer primitives the decoder calls            *)
(* (readInt8/16BE/32BE, slice, indexing, byteLength) are modelled by what  *)
(* they do on the arguments the decoder passes them.                       *)
(*                                                                         *)
(* TLC integers are 32-bit, so 32-bit JavaScript arithmetic is written     *)
(* without ever forming 2^31 or 2^32, and 64-bit values are held as        *)
(* limbs.                                                                  *)
(***************************************************************************)
EXTENDS Integers, Sequences, FiniteSets, TLC

\* ------------------------------------------------------------------
\* Bounds of the model
\* ------------------------------------------------------------------

\* longest buffer a decoder is constructed over
MaxLen == 4

\* longest buffer drawn from the wider byte values
ShortLen == 2

\* how far below 0 / beyond the buffer's end the cursor is followed
OffsetSlack == 1

\* largest explicit size argument of readBytes / slice / forward / canReadBytes
MaxSize == 1

\* byte values of the buffers of up to MaxLen bytes: 0 and 1 (small length
\* prefixes, the varint of -1, the booleans), 255 (the bytes of a -1 prefix,
\* a continuation byte)
ByteVals == {0, 1, 255}

\* byte values of the buffers of up to ShortLen bytes: also 2 (the varint
\* of 1, a false boolean that is not 0), 3 (the varint of -2), 129 and 150
\* (continuation bytes with a small payload)
WideVals == {0, 1, 2, 3, 129, 150, 255}

MinOffset == 0 - OffsetSlack

\* explicit size arguments a caller passes
Sizes == (0 - 1) .. MaxSize

\* ------------------------------------------------------------------
\* Program constants
\* ------------------------------------------------------------------

INT8_SIZE == 1

INT16_SIZE == 2

INT32_SIZE == 4

INT64_SIZE == 8

MOST_SIGNIFICANT_BIT == 128

OTHER_BITS == 127

\* ------------------------------------------------------------------
\* 32-bit arithmetic of the JavaScript operators the decoder uses
\* ------------------------------------------------------------------

Pow2(n) == 2 ^ n

TwoTo30 == Pow2(30)

MaxInt32 == (TwoTo30 - 1) + TwoTo30

MinInt32 == (0 - TwoTo30) - TwoTo30

\* a + b of two int32 values, wrapped to int32 (what ToInt32 makes of the
\* exact sum)
Add32(a, b) ==
  IF a >= 0 /\ b >= 0 /\ a > MaxInt32 - b
    THEN ((a - TwoTo30) - TwoTo30) + ((b - TwoTo30) - TwoTo30)
    ELSE IF a < 0 /\ b < 0 /\ a < MinInt32 - b
      THEN ((a + TwoTo30) + TwoTo30) + ((b + TwoTo30) + TwoTo30)
      ELSE a + b

\* x << i for 0 <= x <= 127: the shift count is taken modulo 32 and the
\* result is an int32
Shl32(x, i) ==
  LET s == i % 32 IN
  IF s <= 24 THEN x * Pow2(s)
  ELSE LET kept == x % Pow2(31 - s)
           top  == (x \div Pow2(31 - s)) % 2
           low  == IF kept = 0 THEN 0 ELSE kept * Pow2(s)
       IN IF top = 1 THEN (low - TwoTo30) - TwoTo30 ELSE low

\* value >>> 1 for an int32 value (the unsigned shift of its bit pattern)
Shr1U32(v) ==
  IF v >= 0 THEN v \div 2
  ELSE (((v + TwoTo30) + TwoTo30) \div 2) + TwoTo30

\* decodeZigZag without the xor: value >>> 1
decodeZigZag_ShiftOnly(value) == Shr1U32(value)

\* static decodeZigZag(value): (value >>> 1) ^ -(value & 1)
decodeZigZag(value) ==
  IF value % 2 = 0 THEN Shr1U32(value) ELSE (0 - Shr1U32(value)) - 1

\* ------------------------------------------------------------------
\* Values the operations return
\* ------------------------------------------------------------------

Val(k, n, s, e) == [kind |-> k, num |-> n, seq |-> s, elems |-> e]

NoVal == Val("none", 0, <<>>, <<>>)

Null == Val("null", 0, <<>>, <<>>)

IntVal(n) == Val("int", n, <<>>, <<>>)

BoolVal(b) == Val("bool", IF b THEN 1 ELSE 0, <<>>, <<>>)

\* a Buffer holding the bytes s
BytesVal(s) == Val("bytes", 0, s, <<>>)

\* a string of the code points s
StrVal(s) == Val("string", 0, s, <<>>)

\* an array of the values e
ArrVal(e) == Val("array", 0, <<>>, e)

\* a BigInt or Long: the signed high 32 bits and the low 32 bits as two
\* 16-bit limbs, most significant first
Int64Val(hi, lo) == Val("int64", hi, lo, <<>>)

\* ------------------------------------------------------------------
\* Node's Buffer, as the decoder uses it
\* ------------------------------------------------------------------

\* buffer[i]: the byte at index i, or undefined outside 0 .. length-1
Defined(buf, i) == i >= 0 /\ i < Len(buf)

At(buf, i) == buf[i + 1]

\* Buffer.prototype.slice's index adjustment: a negative index counts from
\* the end, and every index is clamped to 0 .. length
AdjustOffset(i, length) ==
  IF i < 0 THEN (IF i + length > 0 THEN i + length ELSE 0)
  ELSE IF i < length THEN i ELSE length

\* buffer.slice(start, end)
BufSlice(buf, start, end) ==
  LET s == AdjustOffset(start, Len(buf))
      e == AdjustOffset(end, Len(buf))
  IN IF e > s THEN SubSeq(buf, s + 1, e) ELSE <<>>

\* buffer.slice(start)
BufSliceFrom(buf, start) ==
  LET s == AdjustOffset(start, Len(buf))
  IN IF Len(buf) > s THEN SubSeq(buf, s + 1, Len(buf)) ELSE <<>>

\* stringBuffer.toString('utf8') over the byte values of the model: a byte
\* below 0x80 is its own code point; a two-byte sequence (lead 0xC2..0xDF,
\* continuation 0x80..0xBF) is one code point; any other byte decodes to
\* U+FFFD
RECURSIVE Utf8Decode(_)
Utf8Decode(bytes) ==
  IF bytes = <<>> THEN <<>>
  ELSE LET b == Head(bytes) IN
    IF b < 128 THEN <<b>> \o Utf8Decode(Tail(bytes))
    ELSE IF /\ b >= 194 /\ b <= 223 /\ Len(bytes) >= 2
            /\ bytes[2] >= 128 /\ bytes[2] <= 191
      THEN <<((b - 192) * 64) + (bytes[2] - 128)>> \o Utf8Decode(Tail(Tail(bytes)))
      ELSE <<65533>> \o Utf8Decode(Tail(bytes))

\* ------------------------------------------------------------------
\* The decoder's methods, as functions of the decoder d = [buffer, offset]
\* to the outcome [offset, status, value, calls]: the cursor after the
\* call, "ok" or "error" (the call threw), the value returned, and the
\* offsets at which an element reader was invoked
\* ------------------------------------------------------------------

Ok(off, v) == [offset |-> off, status |-> "ok", value |-> v, calls |-> <<>>]

\* the call threw with the cursor at off
Threw(off) == [offset |-> off, status |-> "error", value |-> NoVal, calls |-> <<>>]

SignedByte(b) == IF b >= 128 THEN b - 256 ELSE b

\* readInt8 advancing the cursor before the buffer is read
readInt8_AdvanceFirst(d) ==
  IF ~Defined(d.buffer, d.offset) THEN Threw(d.offset + INT8_SIZE)
  ELSE Ok(d.offset + INT8_SIZE, IntVal(SignedByte(At(d.buffer, d.offset))))

readInt8(d) ==
  IF ~Defined(d.buffer, d.offset) THEN Threw(d.offset)
  ELSE Ok(d.offset + INT8_SIZE, IntVal(SignedByte(At(d.buffer, d.offset))))

\* readInt16 reading the two bytes least significant first
readInt16_LittleEndian(d) ==
  IF ~Defined(d.buffer, d.offset) \/ ~Defined(d.buffer, d.offset + 1)
    THEN Threw(d.offset)
  ELSE Ok(d.offset + INT16_SIZE,
          IntVal((SignedByte(At(d.buffer, d.offset + 1)) * 256) + At(d.buffer, d.offset)))

readInt16(d) ==
  IF ~Defined(d.buffer, d.offset) \/ ~Defined(d.buffer, d.offset + 1)
    THEN Threw(d.offset)
  ELSE Ok(d.offset + INT16_SIZE,
          IntVal((SignedByte(At(d.buffer, d.offset)) * 256) + At(d.buffer, d.offset + 1)))

\* readInt32 that tests the first byte only and reads a missing byte as 0
readInt32_FirstByteOnly(d) ==
  LET ByteOr0(i) == IF Defined(d.buffer, i) THEN At(d.buffer, i) ELSE 0 IN
  IF ~Defined(d.buffer, d.offset) THEN Threw(d.offset)
  ELSE Ok(d.offset + INT32_SIZE,
          IntVal((SignedByte(At(d.buffer, d.offset)) * 16777216)
                 + (ByteOr0(d.offset + 1) * 65536)
                 + (ByteOr0(d.offset + 2) * 256)
                 + ByteOr0(d.offset + 3)))

readInt32(d) ==
  IF ~Defined(d.buffer, d.offset) \/ ~Defined(d.buffer, d.offset + 3)
    THEN Threw(d.offset)
  ELSE Ok(d.offset + INT32_SIZE,
          IntVal((SignedByte(At(d.buffer, d.offset)) * 16777216)
                 + (At(d.buffer, d.offset + 1) * 65536)
                 + (At(d.buffer, d.offset + 2) * 256)
                 + At(d.buffer, d.offset + 3)))

\* readBigInt64BE(buffer, offset): throws when the first or the last of the
\* eight bytes is undefined
readBigInt64BE(buf, off) ==
  IF ~Defined(buf, off) \/ ~Defined(buf, off + 7) THEN Threw(off)
  ELSE Ok(off,
          Int64Val((SignedByte(At(buf, off)) * 16777216)
                   + (At(buf, off + 1) * 65536)
                   + (At(buf, off + 2) * 256)
                   + At(buf, off + 3),
                   << (At(buf, off + 4) * 256) + At(buf, off + 5),
                      (At(buf, off + 6) * 256) + At(buf, off + 7) >>))

readInt64(d) ==
  LET r == readBigInt64BE(d.buffer, d.offset) IN
  IF r.status = "error" THEN Threw(d.offset)
  ELSE Ok(d.offset + INT64_SIZE, r.value)

readBoolean(d) ==
  LET r == readInt8(d) IN
  IF r.status = "error" THEN r
  ELSE Ok(r.offset, BoolVal(r.value.num = 1))

\* canReadBytes with > in place of >=
canReadBytes_Strict(d, length) == Ok(d.offset, BoolVal(Len(d.buffer) - d.offset > length))

canReadBytes(d, length) == Ok(d.offset, BoolVal(Len(d.buffer) - d.offset >= length))

canReadInt16(d) == canReadBytes(d, INT16_SIZE)

canReadInt32(d) == canReadBytes(d, INT32_SIZE)

canReadInt64(d) == canReadBytes(d, INT64_SIZE)

\* ------------------------------------------------------------------
\* The 64-bit integers of utils/long, as four 16-bit limbs, least
\* significant first
\* ------------------------------------------------------------------

Limb == Pow2(16)

\* Long.fromInt(x).shiftLeft(i) for 0 <= x <= 127, kept to 64 bits
LongShl(x, i) ==
  LET n == i % 64
      q == n \div 16
      v == x * Pow2(n % 16)
  IN [j \in 1..4 |->
        IF j = q + 1 THEN v % Limb
        ELSE IF j = q + 2 THEN v \div Limb
        ELSE 0]

\* a.add(b)
LongAdd(a, b) ==
  LET s1 == a[1] + b[1]
      s2 == a[2] + b[2] + (s1 \div Limb)
      s3 == a[3] + b[3] + (s2 \div Limb)
      s4 == a[4] + b[4] + (s3 \div Limb)
  IN << s1 % Limb, s2 % Limb, s3 % Limb, s4 % Limb >>

\* a.shiftRightUnsigned(1)
LongShr1U(a) ==
  [j \in 1..4 |-> (a[j] \div 2) + (IF j < 4 THEN (a[j + 1] % 2) * (Limb \div 2) ELSE 0)]

\* decodeZigZag64 without the xor: longValue.shiftRightUnsigned(1)
decodeZigZag64_ShiftOnly(longValue) == LongShr1U(longValue)

\* static decodeZigZag64(longValue):
\* longValue.shiftRightUnsigned(1).xor(longValue.and(Long.fromInt(1)).negate())
decodeZigZag64(longValue) ==
  LET h == LongShr1U(longValue) IN
  IF longValue[1] % 2 = 0 THEN h
  ELSE [j \in 1..4 |-> (Limb - 1) - h[j]]

\* the Long as a returned value
LongVal(a) ==
  Int64Val(((IF a[4] >= Limb \div 2 THEN a[4] - Limb ELSE a[4]) * Limb) + a[3],
           << a[2], a[1] >>)

\* ------------------------------------------------------------------
\* Variable-length integers
\* ------------------------------------------------------------------

\* the do-while loop of readVarInt from the cursor off with the
\* accumulator result and the shift i: an undefined byte (off outside the
\* buffer) adds 0 and ends the loop, as undefined >= 128 is false
RECURSIVE VarIntLoop(_, _, _, _)
VarIntLoop(buf, off, result, i) ==
  IF ~Defined(buf, off) THEN [offset |-> off + 1, result |-> result]
  ELSE LET currentByte == At(buf, off)
           sum == Add32(result, Shl32(currentByte % (OTHER_BITS + 1), i))
       IN IF currentByte >= MOST_SIGNIFICANT_BIT
            THEN VarIntLoop(buf, off + 1, sum, i + 7)
            ELSE [offset |-> off + 1, result |-> sum]

readVarInt(d) ==
  LET r == VarIntLoop(d.buffer, d.offset, 0, 0)
  IN Ok(r.offset, IntVal(decodeZigZag(r.result)))

RECURSIVE VarLongLoop(_, _, _, _)
VarLongLoop(buf, off, result, i) ==
  IF ~Defined(buf, off) THEN [offset |-> off + 1, result |-> result]
  ELSE LET currentByte == At(buf, off)
           sum == LongAdd(result, LongShl(currentByte % (OTHER_BITS + 1), i))
       IN IF currentByte >= MOST_SIGNIFICANT_BIT
            THEN VarLongLoop(buf, off + 1, sum, i + 7)
            ELSE [offset |-> off + 1, result |-> sum]

readVarLong(d) ==
  LET r == VarLongLoop(d.buffer, d.offset, <<0, 0, 0, 0>>, 0)
  IN Ok(r.offset, LongVal(decodeZigZag64(r.result)))

\* ------------------------------------------------------------------
\* Length-prefixed payloads
\* ------------------------------------------------------------------

\* the string reads without the test for -1: a prefix of -1 gives the empty
\* string
StringAfter_NoNull(d, r) ==
  IF r.status = "error" THEN Threw(r.offset)
  ELSE LET byteLength == IF r.value.num = 0 - 1 THEN 0 ELSE r.value.num
           stringBuffer == BufSlice(d.buffer, r.offset, r.offset + byteLength)
       IN Ok(r.offset + byteLength, StrVal(Utf8Decode(stringBuffer)))

\* the part of readString / readVarIntString after the prefix: r is the
\* outcome of the prefix read
StringAfter(d, r) ==
  IF r.status = "error" THEN Threw(r.offset)
  ELSE IF r.value.num = 0 - 1 THEN Ok(r.offset, Null)
  ELSE LET byteLength == r.value.num
           stringBuffer == BufSlice(d.buffer, r.offset, r.offset + byteLength)
       IN Ok(r.offset + byteLength, StrVal(Utf8Decode(stringBuffer)))

readString(d) == StringAfter(d, readInt16(d))

readVarIntString(d) == StringAfter(d, readVarInt(d))

\* the part of readBytes / readVarIntBytes after the length is known
BytesAfter(d, r) ==
  IF r.status = "error" THEN Threw(r.offset)
  ELSE IF r.value.num = 0 - 1 THEN Ok(r.offset, Null)
  ELSE LET byteLength == r.value.num
           stringBuffer == BufSlice(d.buffer, r.offset, r.offset + byteLength)
       IN Ok(r.offset + byteLength, BytesVal(stringBuffer))

\* readBytes(byteLength = this.readInt32()): hasLen says whether the caller
\* passed byteLength
readBytes(d, hasLen, byteLength) ==
  IF hasLen THEN BytesAfter(d, Ok(d.offset, IntVal(byteLength)))
  ELSE BytesAfter(d, readInt32(d))

readVarIntBytes(d) == BytesAfter(d, readVarInt(d))

\* readAll advancing by the number of bytes it returns
readAll_ByReturned(d) ==
  Ok(d.offset + Len(BufSliceFrom(d.buffer, d.offset)),
     BytesVal(BufSliceFrom(d.buffer, d.offset)))

readAll(d) ==
  Ok(d.offset + Len(d.buffer), BytesVal(BufSliceFrom(d.buffer, d.offset)))

\* ------------------------------------------------------------------
\* Arrays, sub-decoders, skipping
\* ------------------------------------------------------------------

\* the element readers a caller passes: each reads one fixed-width integer
Readers == {"readInt8", "readInt16"}

\* reader(this)
CallReader(reader, d) ==
  IF reader = "readInt8" THEN readInt8(d) ELSE readInt16(d)

\* the loop with array.unshift in place of array.push: the results come out
\* in reverse invocation order
RECURSIVE ArrayLoop_Unshift(_, _, _, _, _, _, _)
ArrayLoop_Unshift(buf, off, reader, i, length, array, calls) ==
  IF i >= length
    THEN [offset |-> off, status |-> "ok", value |-> ArrVal(array), calls |-> calls]
  ELSE LET e == IF reader = "readInt8" THEN readInt8([buffer |-> buf, offset |-> off])
                ELSE readInt16([buffer |-> buf, offset |-> off]) IN
    IF e.status = "error"
      THEN [offset |-> e.offset, status |-> "error", value |-> NoVal,
            calls |-> Append(calls, off)]
      ELSE ArrayLoop_Unshift(buf, e.offset, reader, i + 1, length,
                             << e.value >> \o array, Append(calls, off))

\* for (let i = 0; i < length; i++) array.push(reader(this)), from i on:
\* a reader that throws ends the call with the cursor where the reader
\* left it
RECURSIVE ArrayLoop(_, _, _, _, _, _, _)
ArrayLoop(buf, off, reader, i, length, array, calls) ==
  IF i >= length
    THEN [offset |-> off, status |-> "ok", value |-> ArrVal(array), calls |-> calls]
  ELSE LET e == CallReader(reader, [buffer |-> buf, offset |-> off]) IN
    IF e.status = "error"
      THEN [offset |-> e.offset, status |-> "error", value |-> NoVal,
            calls |-> Append(calls, off)]
      ELSE ArrayLoop(buf, e.offset, reader, i + 1, length,
                     Append(array, e.value), Append(calls, off))

\* the array reads answering a count of -1 with null, as the byte reads do
ArrayAfter_Null(d, r, reader) ==
  IF r.status = "error" THEN Threw(r.offset)
  ELSE IF r.value.num = 0 - 1 THEN Ok(r.offset, Null)
  ELSE ArrayLoop(d.buffer, r.offset, reader, 0, r.value.num, <<>>, <<>>)

\* the part of readArray / readVarIntArray after the count
ArrayAfter(d, r, reader) ==
  IF r.status = "error" THEN Threw(r.offset)
  ELSE IF r.value.num = 0 - 1 THEN Ok(r.offset, ArrVal(<<>>))
  ELSE ArrayLoop(d.buffer, r.offset, reader, 0, r.value.num, <<>>, <<>>)

readArray(d, reader) == ArrayAfter(d, readInt32(d), reader)

readVarIntArray(d, reader) == ArrayAfter(d, readVarInt(d), reader)

\* new Decoder(buffer): the new decoder, as a value
NewDecoder(buf) == [buffer |-> buf, offset |-> 0]

DecoderVal(dec) == Val("decoder", dec.offset, dec.buffer, <<>>)

slice(d, size) ==
  Ok(d.offset, DecoderVal(NewDecoder(BufSlice(d.buffer, d.offset, d.offset + size))))

forward(d, size) == Ok(d.offset + size, NoVal)

\* ------------------------------------------------------------------
\* State
\* ------------------------------------------------------------------

VARIABLES
  decoders,   \* the Decoder objects: decoders[1] is the one constructed over
              \* the input buffer, the others were returned by slice
  last,       \* the last call: its decoder, method, argument, the cursor
              \* before it, and its outcome
  alone,      \* for each decoder, a private copy that sees only the calls
              \* made on that decoder
  solo,       \* the outcome of the last call when made on the private copy
  task,       \* the readArrayAsync call in progress
  pending,    \* element-reader computations started and not yet completed
  events      \* the log of element-reader starts and completions

vars == << decoders, last, alone, solo, task, pending, events >>

avars == << task, pending, events >>

\* the buffers a decoder is constructed over
Buffers ==
  (UNION { [1..n -> ByteVals] : n \in 0..MaxLen })
    \cup (UNION { [1..n -> WideVals] : n \in 0..ShortLen })

\* constructor(buffer)
Construct(buf) == NewDecoder(buf)

NoCall ==
  [d |-> 0, op |-> "new", hasArg |-> FALSE, arg |-> 0, reader |-> "", pre |-> 0,
   offset |-> 0, status |-> "ok", value |-> NoVal, calls |-> <<>>]

\* no readArrayAsync call has been made
IdleTask ==
  [pc |-> "idle", d |-> 0, reader |-> "", pre |-> 0, length |-> 0, i |-> 0,
   value |-> NoVal, array |-> <<>>, calls |-> <<>>]

\* a private copy of the decoder dec
Shadow(dec) == [buffer |-> dec.buffer, offset |-> dec.offset]

Outcome(r) == [status |-> r.status, value |-> r.value]

Init ==
  /\ \E buf \in Buffers : /\ decoders = << Construct(buf) >>
                          /\ alone = << Shadow(Construct(buf)) >>
  /\ solo = Outcome(Ok(0, NoVal))
  /\ last = NoCall
  /\ task = IdleTask
  /\ pending = {}
  /\ events = <<>>

\* a cursor shared by all decoders
SetOffset_Shared(ds, d, off) == [k \in DOMAIN ds |-> [ds[k] EXCEPT !.offset = off]]

\* this.offset = off on decoder d
SetOffset(ds, d, off) == [ds EXCEPT ![d].offset = off]

\* the record of a call of method op on decoder d with outcome r
Call(d, op, hasArg, arg, reader, r) ==
  [d |-> d, op |-> op, hasArg |-> hasArg, arg |-> arg, reader |-> reader,
   pre |-> decoders[d].offset, offset |-> r.offset, status |-> r.status,
   value |-> r.value, calls |-> r.calls]

\* the private copies, taken when the second decoder appears
AloneNow == IF Len(decoders) = 1 THEN << Shadow(decoders[1]) >> ELSE alone

\* the cursors from which calls are followed: from MinOffset to OffsetSlack
\* beyond the end of the buffer buf
Followed(buf) == MinOffset..(Len(buf) + OffsetSlack)

\* a method call on decoder d with the outcome out: the cursor moves to where
\* the method leaves it (followed only while the cursor stays in Followed,
\* and wherever a readAll made from there leaves it); once there are several
\* decoders, d's private copy makes the same call on its own, with the
\* outcome outAlone
Do(d, op, hasArg, arg, reader, out, outAlone) ==
  /\ d \in DOMAIN decoders
  /\ \E r \in {out} :
     /\ \/ r.offset \in Followed(decoders[d].buffer)
        \/ op = "readAll" /\ decoders[d].offset \in Followed(decoders[d].buffer)
     /\ decoders' = SetOffset(decoders, d, r.offset)
     /\ last' = Call(d, op, hasArg, arg, reader, r)
     /\ IF Len(decoders) = 1
          THEN alone' = alone /\ solo' = Outcome(r)
          ELSE \E a \in {outAlone} :
                 /\ alone' = [alone EXCEPT ![d].offset = a.offset]
                 /\ solo' = Outcome(a)
     /\ UNCHANGED avars

\* ------------------------------------------------------------------
\* Actions: one per method
\* ------------------------------------------------------------------

ReadInt8(d) ==
  /\ Do(d, "readInt8", FALSE, 0, "",
        readInt8(decoders[d]),
        readInt8(alone[d]))

ReadInt16(d) ==
  /\ Do(d, "readInt16", FALSE, 0, "",
        readInt16(decoders[d]),
        readInt16(alone[d]))

ReadInt32(d) ==
  /\ Do(d, "readInt32", FALSE, 0, "",
        readInt32(decoders[d]),
        readInt32(alone[d]))

ReadInt64(d) ==
  /\ Do(d, "readInt64", FALSE, 0, "",
        readInt64(decoders[d]),
        readInt64(alone[d]))

ReadBoolean(d) ==
  /\ Do(d, "readBoolean", FALSE, 0, "",
        readBoolean(decoders[d]),
        readBoolean(alone[d]))

CanReadInt16(d) ==
  /\ Do(d, "canReadInt16", FALSE, 0, "",
        canReadInt16(decoders[d]),
        canReadInt16(alone[d]))

CanReadInt32(d) ==
  /\ Do(d, "canReadInt32", FALSE, 0, "",
        canReadInt32(decoders[d]),
        canReadInt32(alone[d]))

CanReadInt64(d) ==
  /\ Do(d, "canReadInt64", FALSE, 0, "",
        canReadInt64(decoders[d]),
        canReadInt64(alone[d]))

CanReadBytes(d) ==
  \E n \in Sizes :
    /\ Do(d, "canReadBytes", TRUE, n, "",
          canReadBytes(decoders[d], n),
          canReadBytes(alone[d], n))

ReadString(d) ==
  /\ Do(d, "readString", FALSE, 0, "",
        readString(decoders[d]),
        readString(alone[d]))

ReadVarIntString(d) ==
  /\ Do(d, "readVarIntString", FALSE, 0, "",
        readVarIntString(decoders[d]),
        readVarIntString(alone[d]))

\* readBytes() and readBytes(byteLength)
ReadBytes(d) ==
  \/ /\ Do(d, "readBytes", FALSE, 0, "",
           readBytes(decoders[d], FALSE, 0),
           readBytes(alone[d], FALSE, 0))
  \/ \E n \in Sizes :
       /\ Do(d, "readBytes", TRUE, n, "",
             readBytes(decoders[d], TRUE, n),
             readBytes(alone[d], TRUE, n))

ReadVarIntBytes(d) ==
  /\ Do(d, "readVarIntBytes", FALSE, 0, "",
        readVarIntBytes(decoders[d]),
        readVarIntBytes(alone[d]))

ReadAll(d) ==
  /\ Do(d, "readAll", FALSE, 0, "",
        readAll(decoders[d]),
        readAll(alone[d]))

ReadVarInt(d) ==
  /\ Do(d, "readVarInt", FALSE, 0, "",
        readVarInt(decoders[d]),
        readVarInt(alone[d]))

ReadVarLong(d) ==
  /\ Do(d, "readVarLong", FALSE, 0, "",
        readVarLong(decoders[d]),
        readVarLong(alone[d]))

ReadArray(d) ==
  \E reader \in Readers :
    /\ Do(d, "readArray", FALSE, 0, reader,
          readArray(decoders[d], reader),
          readArray(alone[d], reader))

ReadVarIntArray(d) ==
  \E reader \in Readers :
    /\ Do(d, "readVarIntArray", FALSE, 0, reader,
          readVarIntArray(decoders[d], reader),
          readVarIntArray(alone[d], reader))

Forward(d) ==
  \E size \in Sizes :
    /\ Do(d, "forward", TRUE, size, "",
          forward(decoders[d], size),
          forward(alone[d], size))

\* slice(size), the caller dropping the decoder it gets
Slice(d) ==
  \E size \in Sizes :
    /\ Do(d, "slice", TRUE, size, "",
          slice(decoders[d], size),
          slice(alone[d], size))

Step(d) ==
  \/ ReadInt8(d) \/ ReadInt16(d) \/ ReadInt32(d) \/ ReadInt64(d) \/ ReadBoolean(d)
  \/ CanReadInt16(d) \/ CanReadInt32(d) \/ CanReadInt64(d) \/ CanReadBytes(d)
  \/ ReadString(d) \/ ReadVarIntString(d) \/ ReadBytes(d) \/ ReadVarIntBytes(d)
  \/ ReadAll(d) \/ ReadVarInt(d) \/ ReadVarLong(d)
  \/ ReadArray(d) \/ ReadVarIntArray(d)
  \/ Forward(d) \/ Slice(d)

Next == Step(1)

Spec == Init /\ [][Next]_vars

\* ------------------------------------------------------------------
\* readArrayAsync: the call runs to its first await; each completion of
\* the awaited element reader resumes it
\* ------------------------------------------------------------------

\* the record of the readArrayAsync call t once it has settled
AsyncCall(t, off, status, value) ==
  [d |-> t.d, op |-> "readArrayAsync", hasArg |-> FALSE, arg |-> 0, reader |-> t.reader,
   pre |-> t.pre, offset |-> off, status |-> status, value |-> value, calls |-> t.calls]

\* the call t returns or throws with the cursor at off; log is the event
\* log of the call
Settle(t, off, status, value, log) ==
  /\ decoders' = SetOffset(decoders, t.d, off)
  /\ task' = [t EXCEPT !.pc = IF status = "ok" THEN "resolved" ELSE "rejected"]
  /\ last' = AsyncCall(t, off, status, value)
  /\ events' = log
  /\ solo' = [status |-> status, value |-> value]
  /\ UNCHANGED << alone, pending >>

\* for (let i = 0; i < length; i++) array.push(await reader(this)), from the
\* loop test on with the cursor at off: the call returns the array, or it
\* invokes the reader, which reads its element at the cursor and returns a
\* computation that completes later, and suspends on it
LoopHead(t, off, log) ==
  IF t.i >= t.length THEN Settle(t, off, "ok", ArrVal(t.array), log)
  ELSE \E e \in {CallReader(t.reader, [buffer |-> decoders[t.d].buffer, offset |-> off])} :
    IF e.status = "error"
      THEN Settle([t EXCEPT !.calls = Append(@, off)], e.offset, "error", NoVal, log)
      ELSE /\ decoders' = SetOffset(decoders, t.d, e.offset)
           /\ task' = [t EXCEPT !.pc = "await", !.value = e.value,
                                !.calls = Append(@, off)]
           /\ pending' = pending \cup {[index |-> t.i, value |-> e.value]}
           /\ events' = Append(log, [ev |-> "start", index |-> t.i, value |-> e.value])
           /\ UNCHANGED << last, alone, solo >>

\* readArrayAsync(reader) is called on decoder d while no other such call
\* is suspended
ReadArrayAsync(d) ==
  /\ task.pc # "await"
  /\ pending = {}
  /\ \E reader \in Readers, r \in {readInt32(decoders[d])} :
       LET t == [IdleTask EXCEPT !.d = d, !.reader = reader, !.pre = decoders[d].offset]
       IN IF r.status = "error" THEN Settle(t, r.offset, "error", NoVal, <<>>)
          ELSE IF r.value.num = 0 - 1 THEN Settle(t, r.offset, "ok", ArrVal(<<>>), <<>>)
          ELSE LoopHead([t EXCEPT !.length = r.value.num], r.offset, <<>>)

\* no await: the loop goes on without the element's completion
Settled_NoAwait(t) == TRUE

\* await: the computation of element t.i has completed
Settled(t) == \A c \in pending : c.index # t.i

\* the suspended call resumes with the awaited element: array.push, i++,
\* and the loop test
Resume ==
  /\ task.pc = "await"
  /\ Settled(task)
  /\ LoopHead([task EXCEPT !.i = @ + 1, !.array = Append(@, task.value)],
              decoders[task.d].offset, events)

\* an element reader's computation completes
ElementCompletes ==
  \E c \in pending :
    /\ pending' = pending \ {c}
    /\ events' = Append(events, [ev |-> "end", index |-> c.index, value |-> c.value])
    /\ UNCHANGED << decoders, last, alone, solo, task >>

\* ------------------------------------------------------------------
\* Arrays: decoders over a count prefix followed by elements
\* ------------------------------------------------------------------

\* largest count prefix of the array buffers
MaxCount == 2

\* most element bytes after the count prefix
MaxBody == 2

\* the bytes of the elements
ElemVals == {1, 255}

\* the four bytes of the 32-bit big-endian two's-complement encoding of n,
\* for -256 <= n <= 255
Int32Bytes(n) == IF n >= 0 THEN << 0, 0, 0, n >> ELSE << 255, 255, 255, 256 + n >>

ArrayBuffers ==
  { Int32Bytes(c) \o body :
      c \in (0 - 1)..MaxCount, body \in UNION { [1..n -> ElemVals] : n \in 0..MaxBody } }
    \cup (UNION { [1..n -> WideVals] : n \in 0..ShortLen })

InitArray ==
  /\ \E buf \in ArrayBuffers : /\ decoders = << Construct(buf) >>
                               /\ alone = << Shadow(Construct(buf)) >>
  /\ solo = Outcome(Ok(0, NoVal))
  /\ last = NoCall
  /\ task = IdleTask
  /\ pending = {}
  /\ events = <<>>

NextArray ==
  \/ ReadArray(1) \/ ReadVarIntArray(1) \/ ReadBytes(1) \/ ReadVarIntBytes(1)
  \/ ReadArrayAsync(1) \/ Resume \/ ElementCompletes

SpecArray == InitArray /\ [][NextArray]_vars

\* ------------------------------------------------------------------
\* Sub-decoders: the caller keeps the decoders slice returns and calls
\* methods on them and on their parent in any order
\* ------------------------------------------------------------------

\* most decoders alive at once
MaxDecoders == 2

\* longest buffer of the first decoder
MaxSliceLen == 2

\* the first decoder's buffers: byte k holds k, so that every slice shows
\* where it was cut
SliceBuffers == { [k \in 1..n |-> k] : n \in 0..MaxSliceLen }

\* slice(size) on decoder d, the caller keeping the decoder it gets
SliceKeep(d) ==
  /\ d \in DOMAIN decoders
  /\ Len(decoders) < MaxDecoders
  /\ \E size \in Sizes : \E r \in {slice(decoders[d], size)} :
       \E a \in {slice(AloneNow[d], size)} :
          /\ decoders' = Append(SetOffset(decoders, d, r.offset), NewDecoder(r.value.seq))
          /\ last' = Call(d, "slice", TRUE, size, "", r)
          /\ alone' = Append([AloneNow EXCEPT ![d].offset = a.offset],
                             Shadow(NewDecoder(a.value.seq)))
          /\ solo' = Outcome(a)
          /\ UNCHANGED avars

InitSlice ==
  /\ \E buf \in SliceBuffers : /\ decoders = << Construct(buf) >>
                               /\ alone = << Shadow(Construct(buf)) >>
  /\ solo = Outcome(Ok(0, NoVal))
  /\ last = NoCall
  /\ task = IdleTask
  /\ pending = {}
  /\ events = <<>>

NextSlice ==
  \E d \in 1..MaxDecoders :
    \/ ReadInt8(d) \/ ReadInt16(d) \/ ReadAll(d) \/ Forward(d) \/ SliceKeep(d)

SpecSlice == InitSlice /\ [][NextSlice]_vars

\* ------------------------------------------------------------------
\* Fixed-width integers: decoders over the big-endian two's-complement
\* encoding of an integer, after some bytes to skip
\* ------------------------------------------------------------------

\* most bytes in front of the encoded integer
MaxPad == 1

\* the w bytes of the big-endian two's-complement encoding of n, w <= 4
BigEndian(n, w) == [k \in 1..w |-> (n \div Pow2(8 * (w - k))) % 256]

\* the eight bytes of the 64-bit integer hi * 2^32 + lo[1] * 2^16 + lo[2]
BigEndian64(hi, lo) == BigEndian(hi, 4) \o BigEndian(lo[1], 2) \o BigEndian(lo[2], 2)

\* the integers encoded: the extremes of each width, the values around 0,
\* and values whose bytes all differ
Int8s == {0 - 128, 0 - 2, 0 - 1, 0, 1, 2, 18, 127}

Int16s == {0 - 32768, 0 - 4660, 0 - 256, 0 - 1, 0, 1, 255, 256, 4660, 32767}

Int32s == {MinInt32, 0 - 305419896, 0 - 65536, 0 - 1, 0, 1, 65535, 16777216,
           305419896, MaxInt32}

\* the high and low halves of the 64-bit integers encoded
High32s == {MinInt32, 0 - 1, 0, 19088743, MaxInt32}

Low32s == {<< 0, 0 >>, << 0, 1 >>, << 32768, 0 >>, << 35243, 52719 >>, << 65535, 65535 >>}

Encodings ==
  { BigEndian(n, INT8_SIZE) : n \in Int8s }
    \cup { BigEndian(n, INT16_SIZE) : n \in Int16s }
    \cup { BigEndian(n, INT32_SIZE) : n \in Int32s }
    \cup { BigEndian64(hi, lo) : hi \in High32s, lo \in Low32s }

IntBuffers ==
  { pad \o enc : pad \in UNION { [1..n -> {255}] : n \in 0..MaxPad }, enc \in Encodings }

InitInt ==
  /\ \E buf \in IntBuffers : /\ decoders = << Construct(buf) >>
                             /\ alone = << Shadow(Construct(buf)) >>
  /\ solo = Outcome(Ok(0, NoVal))
  /\ last = NoCall
  /\ task = IdleTask
  /\ pending = {}
  /\ events = <<>>

NextInt == ReadInt8(1) \/ ReadInt16(1) \/ ReadInt32(1) \/ ReadInt64(1)

SpecInt == InitInt /\ [][NextInt]_vars

\* ------------------------------------------------------------------
\* Variable-length integers: decoders over a continuation-bit sequence,
\* after some bytes to skip and before some bytes that follow
\* ------------------------------------------------------------------

\* most continuation bytes in the short sequences
MaxCont == 1

\* the short sequences: continuation bytes followed by a last byte
ContBytes == {128, 150, 255}

LastBytes == {0, 1, 2, 3, 127}

ShortSeqs ==
  { cont \o << b >> :
      cont \in UNION { [1..n -> ContBytes] : n \in 0..MaxCont }, b \in LastBytes }

\* n bytes of value b
Rep(b, n) == [k \in 1..n |-> b]

\* the long sequences: the five bytes of the 32-bit extremes and of a last
\* byte with bits beyond the 32nd, the ten bytes of the 64-bit extremes and
\* of a last byte with bits beyond the 64th
LongSeqs ==
  { Rep(255, 4) \o << 15 >>, << 254 >> \o Rep(255, 3) \o << 15 >>,
    Rep(255, 4) \o << 7 >>, Rep(128, 4) \o << 8 >>, Rep(255, 4) \o << 127 >>,
    Rep(255, 9) \o << 1 >>, << 254 >> \o Rep(255, 8) \o << 1 >>,
    Rep(128, 9) \o << 1 >>, Rep(255, 9) \o << 127 >>, Rep(150, 7) \o << 1 >> }

VarIntBuffers ==
  { pad \o seq \o tail :
      pad \in UNION { [1..n -> {0}] : n \in 0..MaxPad },
      seq \in ShortSeqs \cup LongSeqs,
      tail \in {<<>>, << 255 >>, << 1 >>} }

InitVarInt ==
  /\ \E buf \in VarIntBuffers : /\ decoders = << Construct(buf) >>
                                /\ alone = << Shadow(Construct(buf)) >>
  /\ solo = Outcome(Ok(0, NoVal))
  /\ last = NoCall
  /\ task = IdleTask
  /\ pending = {}
  /\ events = <<>>

NextVarInt == ReadVarInt(1) \/ ReadVarLong(1)

SpecVarInt == InitVarInt /\ [][NextVarInt]_vars

\* ------------------------------------------------------------------
\* Zigzag: the static decoders applied to what the zigzag encoder of the
\* protocol's writer produces
\* ------------------------------------------------------------------

\* n << 1 for an int32 n
Shl1(n) ==
  IF n >= TwoTo30 THEN (((n - TwoTo30) * 2) - TwoTo30) - TwoTo30
  ELSE IF n < 0 - TwoTo30 THEN (((n + TwoTo30) * 2) + TwoTo30) + TwoTo30
  ELSE n * 2

\* the encoder's n -> (n << 1) ^ (n >> 31): n >> 31 is 0 for n >= 0 and -1,
\* all bits set, for n < 0
encodeZigZag(n) == IF n >= 0 THEN Shl1(n) ELSE (0 - 1) - Shl1(n)

\* a << 1 for a Long a
LongShl1(a) ==
  [j \in 1..4 |-> ((a[j] * 2) % Limb) + (IF j > 1 THEN a[j - 1] \div (Limb \div 2) ELSE 0)]

\* the encoder's n -> (n << 1) ^ (n >> 63)
encodeZigZag64(n) ==
  IF n[4] < Limb \div 2 THEN LongShl1(n)
  ELSE [j \in 1..4 |-> (Limb - 1) - LongShl1(n)[j]]

\* largest magnitude of the small integers encoded
MaxSmall == 16

\* the 32-bit integers encoded: the extremes, the small ones, and the
\* powers of two with their neighbours, of both signs
ZigInts ==
  {MinInt32, MaxInt32} \cup ((0 - MaxSmall)..MaxSmall)
    \cup { Pow2(k) : k \in 1..30 } \cup { Pow2(k) - 1 : k \in 1..30 }
    \cup { 0 - Pow2(k) : k \in 1..30 } \cup { (0 - Pow2(k)) - 1 : k \in 1..30 }

\* the 64-bit integers encoded, as limbs: every mix of empty, low, middle
\* and full limbs, the extremes among them
ZigLongs == [1..4 -> {0, 1, 32767, 32768, 65535}]

\* the record of a call of the static method op
StaticCall(op, arg, value) ==
  [NoCall EXCEPT !.op = op, !.hasArg = TRUE, !.arg = arg, !.value = value]

\* the encoder has produced the zigzag encoding of an integer
InitZigZag ==
  /\ \/ \E n \in ZigInts : last = StaticCall("encodeZigZag", n, IntVal(encodeZigZag(n)))
     \/ \E n \in ZigLongs : last = StaticCall("encodeZigZag64", n, LongVal(encodeZigZag64(n)))
  /\ decoders = <<>>
  /\ alone = <<>>
  /\ solo = Outcome(Ok(0, NoVal))
  /\ task = IdleTask
  /\ pending = {}
  /\ events = <<>>

\* Decoder.decodeZigZag(value) on the encoder's output
DecodeZigZag ==
  /\ last.op = "encodeZigZag"
  /\ last' = StaticCall("decodeZigZag", last.value.num,
                        IntVal(decodeZigZag(last.value.num)))
  /\ UNCHANGED << decoders, alone, solo, task, pending, events >>

\* Decoder.decodeZigZag64(longValue) on the encoder's output
DecodeZigZag64 ==
  /\ last.op = "encodeZigZag64"
  /\ last' = StaticCall("decodeZigZag64", encodeZigZag64(last.arg),
                        LongVal(decodeZigZag64(encodeZigZag64(last.arg))))
  /\ UNCHANGED << decoders, alone, solo, task, pending, events >>

NextZigZag == DecodeZigZag \/ DecodeZigZag64

SpecZigZag == InitZigZag /\ [][NextZigZag]_vars

\* ------------------------------------------------------------------
\* The loop of readVarInt / readVarLong, one iteration at a time
\* ------------------------------------------------------------------

\* while (currentByte >= MOST_SIGNIFICANT_BIT) with an undefined byte taken
\* for a continuation byte
Continues_PastEnd(buf, off) ==
  ~Defined(buf, off) \/ At(buf, off) >= MOST_SIGNIFICANT_BIT

\* while (currentByte >= MOST_SIGNIFICANT_BIT), currentByte being
\* buffer[off]: false for an undefined byte
Continues(buf, off) ==
  Defined(buf, off) /\ At(buf, off) >= MOST_SIGNIFICANT_BIT

\* currentByte & OTHER_BITS, currentByte being buffer[off]: 0 for an
\* undefined byte
Payload(buf, off) == IF Defined(buf, off) THEN At(buf, off) % (OTHER_BITS + 1) ELSE 0

\* readVarInt() or readVarLong() is called on decoder d: let result = 0 (or
\* Long.fromInt(0)), let i = 0; n counts the iterations
VarIntCall(d) ==
  /\ task.pc # "loop"
  /\ d \in DOMAIN decoders
  /\ decoders[d].offset \in Followed(decoders[d].buffer)
  /\ \E op \in {"readVarInt", "readVarLong"} :
       task' = [pc |-> "loop", d |-> d, op |-> op, pre |-> decoders[d].offset,
                result |-> IF op = "readVarInt" THEN Val("number", 0, <<>>, <<>>)
                           ELSE Val("Long", 0, << 0, 0, 0, 0 >>, <<>>),
                i |-> 0, n |-> 0]
  /\ UNCHANGED << decoders, last, alone, solo, pending, events >>

\* one iteration of the do-while loop, and the return when the loop test
\* fails; iterations are followed while the cursor is in Followed
VarIntIterate ==
  /\ task.pc = "loop"
  /\ decoders[task.d].offset \in Followed(decoders[task.d].buffer)
  /\ LET buf == decoders[task.d].buffer
         off == decoders[task.d].offset
         sum == IF task.op = "readVarInt"
                  THEN Val("number", Add32(task.result.num, Shl32(Payload(buf, off), task.i)),
                           <<>>, <<>>)
                  ELSE Val("Long", 0,
                           LongAdd(task.result.seq, LongShl(Payload(buf, off), task.i)), <<>>)
         value == IF task.op = "readVarInt" THEN IntVal(decodeZigZag(sum.num))
                  ELSE LongVal(decodeZigZag64(sum.seq))
     IN /\ decoders' = SetOffset(decoders, task.d, off + 1)
        /\ IF Continues(buf, off)
             THEN /\ task' = [task EXCEPT !.result = sum, !.i = @ + 7, !.n = @ + 1]
                  /\ UNCHANGED << last, solo >>
             ELSE /\ task' = [task EXCEPT !.pc = "done", !.result = sum, !.i = @ + 7,
                                          !.n = @ + 1]
                  /\ last' = [NoCall EXCEPT !.d = task.d, !.op = task.op,
                                            !.pre = task.pre, !.offset = off + 1,
                                            !.value = value]
                  /\ solo' = [status |-> "ok", value |-> value]
  /\ UNCHANGED << alone, pending, events >>

\* forward(size) between two calls
Skip == task.pc # "loop" /\ Forward(1)

NextVarLoop == VarIntCall(1) \/ VarIntIterate \/ Skip

\* longest buffer the loop is followed over
MaxLoopLen == 3

\* the buffers of the loop: every mix of continuation bytes and last bytes,
\* the buffers of continuation bytes only and the empty one among them
LoopBuffers == UNION { [1..n -> {1, 255}] : n \in 0..MaxLoopLen }

InitVarLoop ==
  /\ \E buf \in LoopBuffers : /\ decoders = << Construct(buf) >>
                              /\ alone = << Shadow(Construct(buf)) >>
  /\ solo = Outcome(Ok(0, NoVal))
  /\ last = NoCall
  /\ task = IdleTask
  /\ pending = {}
  /\ events = <<>>

\* a call once made runs on: nothing suspends the loop
SpecVarLoop == InitVarLoop /\ [][NextVarLoop]_vars /\ WF_vars(VarIntIterate)

\* ------------------------------------------------------------------
\* Properties
\* ------------------------------------------------------------------

\* the decoder of the last call, as it was before the call
Before == [buffer |-> decoders[last.d].buffer, offset |-> last.pre]

\* bytes left to read before the last call
RemainingBefore == Len(Before.buffer) - last.pre

\* the number of bytes of buf from the cursor off on
Left(buf, off) == IF off >= Len(buf) THEN 0 ELSE Len(buf) - off

FixedReads == {"readInt8", "readInt16", "readInt32", "readInt64", "readBoolean"}

Width(op) ==
  CASE op = "readInt8" -> INT8_SIZE
    [] op = "readBoolean" -> INT8_SIZE
    [] op = "readInt16" -> INT16_SIZE
    [] op = "readInt32" -> INT32_SIZE
    [] op = "readInt64" -> INT64_SIZE

\* the reads that take their length from a prefix in the buffer
PrefixedReads == {"readString", "readVarIntString", "readBytes", "readVarIntBytes"}

PrefixedCall == last.op \in PrefixedReads /\ ~last.hasArg

\* the outcome of reading the length (or count) prefix of the last call
PrefixOf(op, d) ==
  CASE op = "readString" -> readInt16(d)
    [] op \in {"readBytes", "readArray", "readArrayAsync"} -> readInt32(d)
    [] OTHER -> readVarInt(d)

\* the number of bytes of the varint at off: continuation bytes up to and
\* including the first position that holds no continuation byte
VarIntWidth(buf, off) ==
  CHOOSE k \in 1..(Len(buf) + 2) :
    /\ ~(Defined(buf, off + k - 1) /\ At(buf, off + k - 1) >= MOST_SIGNIFICANT_BIT)
    /\ \A j \in 1..(k - 1) :
         Defined(buf, off + j - 1) /\ At(buf, off + j - 1) >= MOST_SIGNIFICANT_BIT

PrefixSize(op, d) ==
  CASE op = "readString" -> INT16_SIZE
    [] op \in {"readBytes", "readArray", "readArrayAsync"} -> INT32_SIZE
    [] OTHER -> VarIntWidth(d.buffer, d.offset)

\* C1: in every reachable state the cursor of every decoder satisfies
\* 0 <= offset <= length(buffer)
C1_CursorInBuffer ==
  \A d \in DOMAIN decoders :
    decoders[d].offset >= 0 /\ decoders[d].offset <= Len(decoders[d].buffer)

\* C2: the cursor never decreases: after every call the offset is at least
\* what it was before the call
C2_CursorMonotone == last.d # 0 => last.offset >= last.pre

\* C3: a prefixed payload read, or a readBytes with an explicit length,
\* whose length exceeds the bytes that remain after the prefix fails
C3_ShortPayloadFails ==
  /\ (PrefixedCall /\ PrefixOf(last.op, Before).status = "ok"
        /\ PrefixOf(last.op, Before).value.num
             > Left(Before.buffer, PrefixOf(last.op, Before).offset))
       => last.status = "error"
  /\ (last.op = "readBytes" /\ last.hasArg /\ last.arg > Left(Before.buffer, last.pre))
       => last.status = "error"

\* C4: slice(size) fails whenever size exceeds length(buffer) - offset
C4_SliceFails ==
  (last.op = "slice" /\ last.arg > RemainingBefore) => last.status = "error"

\* the bytes at the indices from .. to-1 of buf, each of which must exist
ExactBytes(buf, from, to, seq) ==
  /\ Len(seq) = (IF to > from THEN to - from ELSE 0)
  /\ \A k \in 1..Len(seq) : Defined(buf, from + k - 1) /\ seq[k] = At(buf, from + k - 1)

\* C5: slice(size) leaves the caller's offset unchanged and returns a new
\* decoder with offset 0 over exactly the bytes [offset, offset+size)
C5_SliceFrame ==
  (last.op = "slice" /\ last.status = "ok") =>
     /\ last.offset = last.pre
     /\ last.value.kind = "decoder"
     /\ last.value.num = 0
     /\ ExactBytes(Before.buffer, last.pre, last.pre + last.arg, last.value.seq)

\* C6: a decoder and the decoders sliced from it are independent: under
\* every interleaving of calls each decoder is where its private copy is,
\* which saw only its own calls, and the last call returned what it returns
\* on the private copy
C6_Independent ==
  /\ \A d \in DOMAIN decoders :
       /\ decoders[d].offset = AloneNow[d].offset
       /\ decoders[d].buffer = AloneNow[d].buffer
  /\ last.status = solo.status
  /\ last.value = solo.value

\* a sub-decoder has read a byte after its parent moved on
C6_Witness ==
  /\ Len(decoders) > 1 /\ last.d = 2 /\ last.op = "readInt8" /\ last.status = "ok"
  /\ decoders[1].offset > 0

\* the values of the element readers, in the order they were invoked
Starts == SelectSeq(events, LAMBDA e : e.ev = "start")

\* C7: readArrayAsync runs its element readers strictly one after the
\* other: never two pending at once, reader i+1 starts only after reader i
\* completed, and the result holds the elements in invocation order
C7_Sequential ==
  /\ Cardinality(pending) <= 1
  /\ \A k \in DOMAIN events :
       (events[k].ev = "start" /\ events[k].index > 0) =>
          \E j \in 1..(k - 1) :
            events[j].ev = "end" /\ events[j].index = events[k].index - 1
  /\ (task.pc = "resolved" /\ last.op = "readArrayAsync") =>
       /\ last.value = ArrVal([k \in 1..Len(Starts) |-> Starts[k].value])
       /\ \A k \in 1..Len(Starts) : Starts[k].index = k - 1

\* a readArrayAsync call returned two elements
C7_Witness ==
  /\ task.pc = "resolved" /\ last.op = "readArrayAsync"
  /\ Len(last.value.elems) = 2 /\ Len(events) = 4

\* C8: a fixed-width read issued with the cursor inside the buffer and
\* fewer bytes left than its width fails and returns no value
C8_FixedReadUnderrun ==
  (/\ last.op \in FixedReads
   /\ last.pre >= 0 /\ last.pre <= Len(Before.buffer)
   /\ RemainingBefore < Width(last.op))
     => last.status = "error" /\ last.value = NoVal

\* readInt32 was called with exactly two bytes left and failed
C8_Witness ==
  /\ last.op = "readInt32" /\ last.pre >= 0 /\ RemainingBefore = 2
  /\ last.status = "error"

\* C9: when the length prefix decodes to -1, readString, readVarIntString,
\* readBytes() and readVarIntBytes return null and the cursor has moved by
\* exactly the size of the prefix
C9_NullSentinel ==
  (/\ PrefixedCall
   /\ PrefixOf(last.op, Before).status = "ok"
   /\ PrefixOf(last.op, Before).value.num = 0 - 1)
     => /\ last.status = "ok"
        /\ last.value = Null
        /\ last.offset = last.pre + PrefixSize(last.op, Before)

\* readVarIntBytes met a two-byte varint of -1 and returned null
C9_Witness ==
  /\ last.op = "readVarIntBytes" /\ last.value = Null
  /\ last.offset = last.pre + 2
  /\ Defined(Before.buffer, last.pre + 1)

\* the count prefix of the last call decoded to -1
CountIsMinusOne ==
  /\ last.op \in {"readArray", "readVarIntArray", "readArrayAsync"}
  /\ PrefixOf(last.op, Before).status = "ok"
  /\ PrefixOf(last.op, Before).value.num = 0 - 1

\* C10: readArray, readVarIntArray and readArrayAsync with a count of -1
\* return an empty array, not null, without invoking the element reader,
\* while readBytes with a length of -1 returns null, not an empty buffer
C10_EmptyArrayNotNull ==
  /\ CountIsMinusOne =>
       /\ last.status = "ok"
       /\ last.value = ArrVal(<<>>)
       /\ last.value # Null
       /\ last.calls = <<>>
  /\ (/\ last.op = "readBytes" /\ ~last.hasArg
      /\ PrefixOf(last.op, Before).status = "ok"
      /\ PrefixOf(last.op, Before).value.num = 0 - 1)
       => last.value = Null /\ last.value # BytesVal(<<>>)

\* readArray met a count of -1
C10_Witness == last.op = "readArray" /\ CountIsMinusOne /\ last.value = ArrVal(<<>>)

\* the count prefix of the last call, a readArray or readVarIntArray whose
\* count was read and is not -1
ArrayCall ==
  /\ last.op \in {"readArray", "readVarIntArray"}
  /\ PrefixOf(last.op, Before).status = "ok"
  /\ PrefixOf(last.op, Before).value.num # 0 - 1

Count == PrefixOf(last.op, Before).value.num

\* what the element reader of the last call does when invoked at offset off
ElementAt(off) == CallReader(last.reader, [buffer |-> Before.buffer, offset |-> off])

\* invocation k+1 of the last call started where invocation k left the cursor,
\* the first one right after the count prefix
Chained ==
  /\ (last.calls # <<>>) => last.calls[1] = PrefixOf(last.op, Before).offset
  /\ \A k \in 1..(Len(last.calls) - 1) :
       /\ ElementAt(last.calls[k]).status = "ok"
       /\ last.calls[k + 1] = ElementAt(last.calls[k]).offset

\* the last call returned the results of its invocations, in invocation order
InInvocationOrder ==
  /\ last.value.kind = "array"
  /\ Len(last.value.elems) = Len(last.calls)
  /\ \A k \in 1..Len(last.calls) :
       /\ ElementAt(last.calls[k]).status = "ok"
       /\ last.value.elems[k] = ElementAt(last.calls[k]).value

\* the bytes of the count prefix of the last call all lie in the buffer
CountInBuffer == PrefixOf(last.op, Before).offset <= Len(Before.buffer)

\* C11 as stated: for every count other than -1, a readArray or
\* readVarIntArray that returns has invoked the element reader exactly count
\* times, each invocation starting where the one before left the cursor,
\* and returns a sequence of length count holding the results in invocation
\* order
C11_ExactlyCountTimes ==
  (ArrayCall /\ CountInBuffer /\ last.status = "ok") =>
    /\ Len(last.calls) = Count
    /\ Chained
    /\ InInvocationOrder
    /\ Len(last.value.elems) = Count

\* the number of iterations of the loop for a count: none for a negative one
Iterations(count) == IF count > 0 THEN count ELSE 0

\* C11 amended: for every count other than -1, readArray and readVarIntArray
\* invoke the element reader in increasing index order, each invocation
\* starting where the one before left the cursor, until max(count, 0)
\* invocations have returned or one has thrown; in the first case the call
\* returns the max(count, 0) results in invocation order and leaves the
\* cursor where the last invocation left it, in the second the call fails
\* with that invocation
C11_InvokesInOrder ==
  ArrayCall =>
    /\ Chained
    /\ Len(last.calls) <= Iterations(Count)
    /\ last.status = "ok" =>
         /\ Len(last.calls) = Iterations(Count)
         /\ InInvocationOrder
         /\ last.offset = IF last.calls = <<>> THEN PrefixOf(last.op, Before).offset
                          ELSE ElementAt(last.calls[Len(last.calls)]).offset
    /\ last.status = "error" =>
         /\ last.calls # <<>>
         /\ ElementAt(last.calls[Len(last.calls)]).status = "error"
         /\ last.value = NoVal

\* readArray read a count of 2 and returned two different elements
C11_Witness ==
  /\ ArrayCall /\ last.op = "readArray" /\ Count = 2 /\ last.status = "ok"
  /\ Len(last.calls) = 2 /\ last.value.elems[1] # last.value.elems[2]

\* the width in bits of the integer a fixed-width read decodes
Bits(op) ==
  CASE op = "readInt8" -> 8
    [] op = "readInt16" -> 16
    [] op = "readInt32" -> 32
    [] op = "readInt64" -> 64

IntReads == {"readInt8", "readInt16", "readInt32", "readInt64"}

\* the bytes of the buffer of the last call from the cursor on, as many as
\* the width of the read
BytesAtCursor == SubSeq(Before.buffer, last.pre + 1, last.pre + (Bits(last.op) \div 8))

\* the value v is the integer whose encoding of the width of op is bytes
Decodes(op, v, bytes) ==
  CASE op = "readInt8" ->
         v.kind = "int" /\ v.num \in (0 - 128)..127 /\ BigEndian(v.num, 1) = bytes
    [] op = "readInt16" ->
         v.kind = "int" /\ v.num \in (0 - 32768)..32767 /\ BigEndian(v.num, 2) = bytes
    [] op = "readInt32" ->
         v.kind = "int" /\ BigEndian(v.num, 4) = bytes
    [] op = "readInt64" ->
         /\ v.kind = "int64" /\ Len(v.seq) = 2
         /\ \A k \in 1..2 : v.seq[k] \in 0..(Limb - 1)
         /\ BigEndian64(v.num, v.seq) = bytes

\* C12: a readInt8, readInt16, readInt32 or readInt64 with the big-endian
\* two's-complement encoding of n at the cursor returns exactly n, negative
\* and extreme values included, and advances the offset by the width in
\* bytes
C12_ReadsExactInteger ==
  (/\ last.op \in IntReads
   /\ last.pre >= 0
   /\ last.pre + (Bits(last.op) \div 8) <= Len(Before.buffer))
    => /\ last.status = "ok"
       /\ last.offset = last.pre + (Bits(last.op) \div 8)
       /\ Decodes(last.op, last.value, BytesAtCursor)
       /\ \A n \in Int8s :
            (last.op = "readInt8" /\ BytesAtCursor = BigEndian(n, 1))
              => last.value = IntVal(n)
       /\ \A n \in Int16s :
            (last.op = "readInt16" /\ BytesAtCursor = BigEndian(n, 2))
              => last.value = IntVal(n)
       /\ \A n \in Int32s :
            (last.op = "readInt32" /\ BytesAtCursor = BigEndian(n, 4))
              => last.value = IntVal(n)
       /\ \A hi \in High32s, lo \in Low32s :
            (last.op = "readInt64" /\ BytesAtCursor = BigEndian64(hi, lo))
              => last.value = Int64Val(hi, lo)

\* readInt64 read the smallest 64-bit integer at a cursor other than 0
C12_Witness ==
  /\ last.op = "readInt64" /\ last.pre > 0 /\ last.status = "ok"
  /\ last.value = Int64Val(MinInt32, << 0, 0 >>)
  /\ last.offset = last.pre + 8

VarReads == {"readVarInt", "readVarLong"}

\* the width in bits of the integer a variable-length read decodes
VarBits(op) == IF op = "readVarInt" THEN 32 ELSE 64

\* the most bytes that encode an integer of that width
MaxEncoded(op) == IF op = "readVarInt" THEN 5 ELSE 10

\* the number of bytes of the continuation-bit sequence at the cursor of
\* the last call
Encoded == VarIntWidth(Before.buffer, last.pre)

\* the last call is a variable-length read with a whole sequence, ended by a
\* byte without the continuation bit, in the buffer at the cursor
SequenceAtCursor ==
  /\ last.op \in VarReads
  /\ last.pre >= 0
  /\ Defined(Before.buffer, last.pre + Encoded - 1)

\* bit j of the byte x
Bit(x, j) == (x \div Pow2(j)) % 2

\* bit j of the sum of (byte & 0x7f) << (7 * k) over the bytes of the
\* sequence: the groups of seven bits do not overlap, so bit j is bit j % 7
\* of byte j \div 7
SumBit(j) ==
  IF j \div 7 < Encoded THEN Bit(At(Before.buffer, last.pre + (j \div 7)) % 128, j % 7)
  ELSE 0

\* the bits of the zigzag decoding (v >>> 1) xor -(v and 1) of the sum kept
\* to width bits
ZigZagBits(width) ==
  [j \in 0..(width - 1) |->
     LET shifted == IF j + 1 < width THEN SumBit(j + 1) ELSE 0
     IN IF shifted = SumBit(0) THEN 0 ELSE 1]

\* the number whose bits are b[from], ..., b[from + n - 1], least
\* significant first
RECURSIVE FromBits(_, _, _)
FromBits(b, from, n) ==
  IF n = 0 THEN 0 ELSE b[from] + (2 * FromBits(b, from + 1, n - 1))

\* the signed 32-bit number whose bits are b[from], ..., b[from + 31]
Signed32(b, from) ==
  IF b[from + 31] = 1 THEN (FromBits(b, from, 31) - TwoTo30) - TwoTo30
  ELSE FromBits(b, from, 31)

\* the value the zigzag decoding of the sum denotes
Decoded(op) ==
  IF op = "readVarInt" THEN IntVal(Signed32(ZigZagBits(32), 0))
  ELSE Int64Val(Signed32(ZigZagBits(64), 32),
                << FromBits(ZigZagBits(64), 16, 16), FromBits(ZigZagBits(64), 0, 16) >>)

\* the bytes seq lie at the cursor of the last call
AtCursor(seq) ==
  /\ last.pre >= 0 /\ last.pre + Len(seq) <= Len(Before.buffer)
  /\ SubSeq(Before.buffer, last.pre + 1, last.pre + Len(seq)) = seq

\* C13: readVarInt and readVarLong on a continuation-bit sequence held in
\* the buffer (of at most 5, respectively 10, bytes) return the zigzag
\* decoding of the sum of (byte & 0x7f) << (7 * k) and advance the offset by
\* the number of bytes of the sequence; [0x96, 0x01] decodes to 75 with the
\* offset advanced by 2 and [0x01] to -1 with the offset advanced by 1
C13_DecodesVarInt ==
  /\ (SequenceAtCursor /\ Encoded <= MaxEncoded(last.op)) =>
       /\ last.status = "ok"
       /\ last.offset = last.pre + Encoded
       /\ last.value = Decoded(last.op)
  /\ (last.op = "readVarInt" /\ AtCursor(<< 150, 1 >>)) =>
       last.value = IntVal(75) /\ last.offset = last.pre + 2
  /\ (last.op = "readVarLong" /\ AtCursor(<< 150, 1 >>)) =>
       last.value = Int64Val(0, << 0, 75 >>) /\ last.offset = last.pre + 2
  /\ (last.op = "readVarInt" /\ AtCursor(<< 1 >>)) =>
       last.value = IntVal(0 - 1) /\ last.offset = last.pre + 1
  /\ (last.op = "readVarLong" /\ AtCursor(<< 1 >>)) =>
       last.value = Int64Val(0 - 1, << 65535, 65535 >>) /\ last.offset = last.pre + 1

\* readVarInt decoded [0x96, 0x01] at a cursor other than 0
C13_Witness ==
  /\ last.op = "readVarInt" /\ last.pre > 0 /\ AtCursor(<< 150, 1 >>)
  /\ last.value = IntVal(75)

\* C14: when readVarInt or readVarLong, called with the cursor in the
\* buffer, returns, the last byte it consumed is a byte of the buffer with
\* the continuation bit clear, every byte consumed before it is a byte of
\* the buffer with the bit set, and nothing after it was consumed
C14_StopsAtClearByte ==
  (/\ last.op \in VarReads /\ last.status = "ok"
   /\ last.pre >= 0 /\ last.pre <= Len(Before.buffer))
    => /\ last.offset > last.pre
       /\ Defined(Before.buffer, last.offset - 1)
       /\ At(Before.buffer, last.offset - 1) < MOST_SIGNIFICANT_BIT
       /\ \A i \in last.pre..(last.offset - 2) :
            Defined(Before.buffer, i) /\ At(Before.buffer, i) >= MOST_SIGNIFICANT_BIT

\* C15: decodeZigZag inverts the encoder n -> (n << 1) xor (n >> 31) on
\* every 32-bit n, and decodeZigZag64 inverts n -> (n << 1) xor (n >> 63) on
\* every 64-bit n: decoding the encoding of n gives n
C15_ZigZagRoundTrip ==
  /\ last.op = "decodeZigZag" =>
       \A n \in ZigInts : last.arg = encodeZigZag(n) => last.value = IntVal(n)
  /\ last.op = "decodeZigZag64" =>
       \A n \in ZigLongs : last.arg = encodeZigZag64(n) => last.value = LongVal(n)

\* decodeZigZag64 was given the encoding of the smallest 64-bit integer,
\* all bits set
C15_Witness ==
  /\ last.op = "decodeZigZag64"
  /\ last.arg = << 65535, 65535, 65535, 65535 >>
  /\ last.value = Int64Val(MinInt32, << 0, 0 >>)

Probes == {"canReadBytes", "canReadInt16", "canReadInt32", "canReadInt64"}

\* the number of bytes the probe p asks about, arg being its argument
Asked(p, arg) ==
  CASE p = "canReadBytes" -> arg
    [] p = "canReadInt16" -> 2
    [] p = "canReadInt32" -> 4
    [] p = "canReadInt64" -> 8

\* C16: canReadBytes(n) returns true exactly when length(buffer) - offset
\* >= n, canReadInt16, canReadInt32 and canReadInt64 return what
\* canReadBytes(2), canReadBytes(4) and canReadBytes(8) return, and none of
\* them changes the offset or the buffer of any decoder
C16_ProbeIsPure ==
  [][ last'.op \in Probes =>
        /\ decoders' = decoders
        /\ last'.status = "ok"
        /\ last'.value =
             BoolVal(Len(decoders[last'.d].buffer) - decoders[last'.d].offset
                       >= Asked(last'.op, last'.arg)) ]_vars

\* canReadInt16 answered true with exactly two bytes left, the cursor not
\* at 0
C16_Witness ==
  /\ last.op = "canReadInt16" /\ last.value = BoolVal(TRUE)
  /\ last.pre > 0 /\ RemainingBefore = 2

\* C17: readAll returns the bytes [offset, length(buffer)) and advances the
\* cursor by the length of the whole buffer, not by the number of bytes it
\* returns: the offset after it is the offset before plus length(buffer),
\* beyond the buffer's end whenever the offset before was greater than 0
C17_ReadAllAdvancesByLength ==
  last.op = "readAll" =>
    /\ last.status = "ok"
    /\ last.offset = last.pre + Len(Before.buffer)
    /\ last.pre > 0 => last.offset > Len(Before.buffer)
    /\ last.pre >= 0 =>
         /\ last.value.kind = "bytes"
         /\ ExactBytes(Before.buffer, last.pre, Len(Before.buffer), last.value.seq)

\* readAll was called in the middle of the buffer, returned the bytes left
\* and put the cursor beyond the end
C17_Witness ==
  /\ last.op = "readAll" /\ last.pre > 1 /\ last.pre < Len(Before.buffer)
  /\ Len(last.value.seq) = Len(Before.buffer) - last.pre
  /\ last.offset > Len(Before.buffer)

\* the read a typed probe announces
ReadOf(p) ==
  CASE p = "canReadInt16" -> "readInt16"
    [] p = "canReadInt32" -> "readInt32"
    [] p = "canReadInt64" -> "readInt64"

TypedProbes == {"canReadInt16", "canReadInt32", "canReadInt64"}

\* C18: in every reachable state, a readInt16 / readInt32 / readInt64 that
\* immediately follows its probe canReadInt16 / canReadInt32 / canReadInt64
\* on the same decoder succeeds if the probe returned true and fails if it
\* returned false
C18_ProbeSound ==
  [][ (/\ last.op \in TypedProbes
       /\ last'.op = ReadOf(last.op)
       /\ last'.d = last.d)
        => (last'.status = "ok" <=> last.value = BoolVal(TRUE)) ]_vars

\* C19: a readInt8, readInt16, readInt32, readInt64 or readBoolean that
\* fails for want of bytes leaves the decoder as it was: the offset and the
\* buffer after the failed call are those before it and no value is
\* returned, so that the same read can be made again on the same instance
C19_FailedReadKeepsCursor ==
  [][ (last'.op \in FixedReads /\ last'.status = "error") =>
        /\ decoders' = decoders
        /\ last'.offset = last'.pre
        /\ last'.pre = decoders[last'.d].offset
        /\ last'.value = NoVal
        /\ RemainingBefore' < Width(last'.op) \/ last'.pre < 0 ]_vars

\* readInt64 failed in the middle of a buffer with bytes left, and the
\* cursor is where it was
C19_Witness ==
  /\ last.op = "readInt64" /\ last.status = "error"
  /\ last.pre > 0 /\ RemainingBefore > 0
  /\ decoders[last.d].offset = last.pre

\* C20: readVarInt and readVarLong terminate whatever the buffer holds and
\* wherever the cursor is, also when every byte left has the continuation
\* bit set and when no byte is left, and when the call starts with offset <=
\* length(buffer) the loop performs at most (length(buffer) - offset) + 1
\* iterations
C20_VarIntTerminates ==
  /\ (task.pc = "loop") ~> (task.pc = "done")
  /\ [](task.pc \in {"loop", "done"} =>
          /\ task.pc = "loop" => decoders[task.d].offset = task.pre + task.n
          /\ task.pc = "done" => task.n >= 1
          /\ task.pre <= Len(decoders[task.d].buffer) =>
               task.n <= (Len(decoders[task.d].buffer) - task.pre) + 1)

\* a call returned after as many iterations as the bound allows, over bytes
\* that all have the continuation bit set
C20_Witness ==
  /\ task.pc = "done" /\ task.pre >= 0
  /\ task.n = (Len(decoders[task.d].buffer) - task.pre) + 1
  /\ task.n >= 3

====
